---- MODULE Spec2Model ----
(***************************************************************************)
(* Forward pass of the transformer encoder of us/02-Wed/transformer.py.    *)
(*                                                                         *)
(* Tensors are modelled by their shape (a sequence of dimensions) and,     *)
(* where the values matter, by exact integer or symbolic contents.  The    *)
(* module holds one state machine per component under study:               *)
(*   SpecPE   - PositionalEncoding: construction of the table and forward  *)
(*   SpecNorm - LayerNormalization.forward on one token                    *)
(*   SpecAttn - masked_fill and softmax of MultiHeadAttentionBlock         *)
(*   SpecMHA  - MultiHeadAttentionBlock: construction, head split/merge    *)
(*   Spec     - the whole pipeline: construction, embedding, positional    *)
(*              encoding, encoder blocks, final normalisation              *)
(*   SpecDet  - the pipeline with a caller that keeps one output and       *)
(*              compares later outputs with it                             *)
(***************************************************************************)
EXTENDS Integers, Sequences, FiniteSets, TLC

VARIABLES pe, ln, att, mha, cfg, mode, rng, params, call, ref

vars == <<pe, ln, att, mha, cfg, mode, rng, params, call, ref>>

(***************************************************************************)
(* Bounds of the model.                                                    *)
(***************************************************************************)
MaxDModelPE == 4
MaxSeqLenPE == 3
MaxBatch == 2

(***************************************************************************)
(* Generic helpers: shapes and broadcasting as torch computes them.        *)
(***************************************************************************)
Min(a, b) == IF a <= b THEN a ELSE b

Max(a, b) == IF a >= b THEN a ELSE b

\* the result of an operation that raises (no valid shape has a negative dimension)
ShapeError == <<-1>>

IsShape(s) == s # ShapeError

\* left-pad a shape with 1s up to rank n
PadShape(s, n) == [i \in 1..n |-> IF i <= n - Len(s) THEN 1 ELSE s[i - (n - Len(s))]]

\* torch broadcasting of two operand shapes (element-wise binary operators)
BroadcastShapes(a, b) ==
  LET n == Max(Len(a), Len(b))
      pa == PadShape(a, n)
      pb == PadShape(b, n)
  IN IF \A i \in 1..n : pa[i] = pb[i] \/ pa[i] = 1 \/ pb[i] = 1
     THEN [i \in 1..n |-> IF pa[i] = 1 THEN pb[i] ELSE pa[i]]
     ELSE ShapeError

\* can a tensor of shape `src` be expanded to exactly the shape `dst`
\* (slice assignment, masked_fill): every dimension equal or 1 in src
ExpandableTo(src, dst) ==
  /\ Len(src) <= Len(dst)
  /\ LET ps == PadShape(src, Len(dst))
     IN \A i \in 1..Len(dst) : ps[i] = dst[i] \/ ps[i] = 1

(***************************************************************************)
(* PositionalEncoding (lines 29-43).                                       *)
(***************************************************************************)
Zero == [fn |-> "zero", pos |-> 0, two_i |-> 0, d_model |-> 0]

\* number of elements of range(start, stop, 2)
StridedCount(start, stop) == IF stop <= start THEN 0 ELSE (stop - start + 1) \div 2

\* torch.arange(0, d_model, 2): element k (0-based) is 2k; the entry stands for
\* exp(2k * (-ln(10000) / d_model)) = 10000^(-2k/d_model)
div_term(d_model) == [k \in 0..(StridedCount(0, d_model) - 1) |-> 2 * k]

\* torch.fn(position * div_term): a [seq_len, len(div_term)] matrix whose entry
\* (pos, k) stands for fn(pos / 10000^(2k/d_model))
Angles(fn, seq_len, d_model) ==
  [pos \in 0..(seq_len - 1) |->
    [k \in DOMAIN div_term(d_model) |->
      [fn |-> fn, pos |-> pos, two_i |-> div_term(d_model)[k], d_model |-> d_model]]]

\* positional_encoding[:, start::2] = m   (m has ncols columns)
\* the right-hand side must expand to the slice's shape, else RuntimeError
SliceAssign(table, seq_len, d_model, start, m, ncols) ==
  LET nslice == StridedCount(start, d_model)
  IN IF ncols = nslice \/ ncols = 1
     THEN [pos \in 0..(seq_len - 1) |->
            [c \in 0..(d_model - 1) |->
              IF c >= start /\ (c - start) % 2 = 0
              THEN m[pos][IF ncols = 1 THEN 0 ELSE (c - start) \div 2]
              ELSE table[pos][c]]]
     ELSE ShapeError

PEZeros(seq_len, d_model) == [pos \in 0..(seq_len - 1) |-> [c \in 0..(d_model - 1) |-> Zero]]

PEIdle == [pc |-> "new", d_model |-> 0, seq_len |-> 0, training |-> TRUE,
           positional_encoding |-> <<>>, x |-> <<>>, out |-> <<>>]

\* __init__ up to and including positional_encoding[:, 0::2] = sin(...)
PEConstructSin(d_model, seq_len) ==
  /\ pe.pc = "new"
  /\ pe' = [pe EXCEPT !.pc = "sin_done", !.d_model = d_model, !.seq_len = seq_len,
                      !.positional_encoding =
                         SliceAssign(PEZeros(seq_len, d_model), seq_len, d_model, 0,
                                     Angles("sin", seq_len, d_model),
                                     StridedCount(0, d_model))]
  /\ UNCHANGED <<ln, att, mha, cfg, mode, rng, params, call, ref>>

\* positional_encoding[:, 1::2] = cos(...), unsqueeze(0), register_buffer
PEConstructCos ==
  /\ pe.pc = "sin_done"
  /\ LET t == SliceAssign(pe.positional_encoding, pe.seq_len, pe.d_model, 1,
                          Angles("cos", pe.seq_len, pe.d_model),
                          StridedCount(0, pe.d_model))
     IN pe' = IF IsShape(t)
              THEN [pe EXCEPT !.pc = "ready", !.positional_encoding = t]
              ELSE [pe EXCEPT !.pc = "init_failed", !.positional_encoding = <<>>]
  /\ UNCHANGED <<ln, att, mha, cfg, mode, rng, params, call, ref>>

\* nn.Module.train(mode) / eval() on the PositionalEncoding module
PETrain(m) ==
  /\ pe.pc \in {"ready", "returned", "raised"}
  /\ pe.training # m
  /\ pe' = [pe EXCEPT !.training = m]
  /\ UNCHANGED <<ln, att, mha, cfg, mode, rng, params, call, ref>>

\* forward(x) for x of shape [batch, seq_len, d_model]:
\* x + positional_encoding[:, :x.shape[1], :], then dropout
PESliceShape(seq_len, d_model, n) == <<1, Min(n, seq_len), d_model>>

PEForwardShape(seq_len, d_model, xshape) ==
  BroadcastShapes(xshape, PESliceShape(seq_len, d_model, xshape[2]))

\* which table row is added at position p of the input (broadcast of a
\* one-row slice adds row 0 everywhere)
PEAddedRow(seq_len, n, p) == IF Min(n, seq_len) = 1 THEN 0 ELSE p

PEForward(batch, n) ==
  /\ pe.pc \in {"ready", "returned", "raised"}
  /\ LET xshape == <<batch, n, pe.d_model>>
         oshape == PEForwardShape(pe.seq_len, pe.d_model, xshape)
     IN pe' = IF IsShape(oshape)
              THEN [pe EXCEPT !.pc = "returned", !.x = xshape,
                      !.out = [shape |-> oshape,
                               added |-> [p \in 0..(n - 1) |-> PEAddedRow(pe.seq_len, n, p)],
                               dropout |-> pe.training]]
              ELSE [pe EXCEPT !.pc = "raised", !.x = xshape, !.out = <<>>]
  /\ UNCHANGED <<ln, att, mha, cfg, mode, rng, params, call, ref>>

InitPE ==
  /\ pe = PEIdle
  /\ ln = <<>> /\ att = <<>> /\ mha = <<>>
  /\ cfg = <<>> /\ mode = <<>> /\ rng = 0 /\ params = <<>>
  /\ call = <<>> /\ ref = <<>>

NextPE ==
  \/ \E d \in 1..MaxDModelPE, s \in 1..MaxSeqLenPE : PEConstructSin(d, s)
  \/ PEConstructCos
  \/ \E m \in BOOLEAN : PETrain(m)
  \/ \E b \in 1..MaxBatch, n \in 1..(MaxSeqLenPE + 1) : PEForward(b, n)

SpecPE == InitPE /\ [][NextPE]_vars

(***************************************************************************)
(* C5 (stated as the claim; the code violates it).  For every d_model >= 1 *)
(* and max_seq_len >= 1 construction builds the table, and column 2i holds *)
(* sin(pos / 10000^(2i/d_model)), column 2i+1 holds                        *)
(* cos(pos / 10000^(2i/d_model)), every column written from its formula.   *)
(***************************************************************************)
PEExpected(pos, c, d_model) ==
  IF c % 2 = 0
  THEN [fn |-> "sin", pos |-> pos, two_i |-> c, d_model |-> d_model]
  ELSE [fn |-> "cos", pos |-> pos, two_i |-> c - 1, d_model |-> d_model]

PEConstructed == pe.pc \in {"ready", "returned", "raised"}

C5_TableBuiltForEveryDModel ==
  /\ pe.pc # "init_failed"
  /\ PEConstructed =>
       \A pos \in 0..(pe.seq_len - 1), c \in 0..(pe.d_model - 1) :
          pe.positional_encoding[pos][c] = PEExpected(pos, c, pe.d_model)

(***************************************************************************)
(* C6 (stated as the claim; the code violates it).  A PositionalEncoding   *)
(* forward call on an input longer than the table (seq_len > max_seq_len)  *)
(* raises and returns no output; an output is returned only when           *)
(* seq_len <= max_seq_len.                                                 *)
(***************************************************************************)
C6_TooLongInputRaises ==
  /\ pe.pc = "returned" => pe.x[2] <= pe.seq_len
  /\ (pe.pc = "raised" /\ pe.x[2] > pe.seq_len) => pe.out = <<>>

(***************************************************************************)
(* LayerNormalization (lines 49-59), on one token x of d_model features.   *)
(* Arithmetic is exact: with N = d_model and S = sum(x),                   *)
(*   x[i] - mean       = centred[i] / N      centred[i] = N*x[i] - S       *)
(*   std^2 (torch.std) = ssq / (N*N*(N - correction)), ssq = sum centred^2 *)
(* torch.Tensor.std defaults to Bessel's correction (correction = 1); a    *)
(* zero divisor makes std NaN, and NaN propagates to every output element. *)
(***************************************************************************)
MaxFeatures == 4

TokenValues == {-1, 0, 1, 3}

RECURSIVE SumSeq(_)
SumSeq(s) == IF Len(s) = 0 THEN 0 ELSE s[1] + SumSeq(Tail(s))

\* eps: float = 10**-6, as the rational 1 / EpsInverse
EpsInverse == 1000000

\* self.alpha = nn.Parameter(torch.ones(1)); self.bias = nn.Parameter(torch.zeros(1))
AlphaInit == 1

BiasInit == 0

\* N * (x - x.mean(dim=-1))
Centred(x) == [i \in 1..Len(x) |-> Len(x) * x[i] - SumSeq(x)]

\* the `correction` torch.std applies when called as x.std(dim=-1, keepdim=True)
StdCorrection == 1

\* x.std(dim=-1): the square root of radicand_num / radicand_den, NaN when the
\* divisor N - correction is not positive
Std(x) ==
  LET N == Len(x)
      c == Centred(x)
  IN [divisor |-> N - StdCorrection,
      radicand_num |-> SumSeq([i \in 1..N |-> c[i] * c[i]]),
      radicand_den |-> N * N * (N - StdCorrection),
      nan |-> N - StdCorrection <= 0]

\* alpha * (x - mean) / (std + eps) + bias, element i kept as the exact term
\*   alpha * (centred[i] / N) / (sqrt(radicand) + 1/EpsInverse) + bias
LayerNormalization(x, alpha, bias) ==
  LET sd == Std(x)
  IN [alpha |-> alpha, bias |-> bias, centred |-> Centred(x), n |-> Len(x),
      std |-> sd, eps_inverse |-> EpsInverse,
      finite |-> ~sd.nan]

LNIdle == [pc |-> "idle", x |-> <<>>, alpha |-> AlphaInit, bias |-> BiasInit, out |-> <<>>]

LNForward(x) ==
  /\ ln' = [ln EXCEPT !.pc = "returned", !.x = x,
                      !.out = LayerNormalization(x, ln.alpha, ln.bias)]
  /\ UNCHANGED <<pe, att, mha, cfg, mode, rng, params, call, ref>>

InitNorm ==
  /\ ln = LNIdle
  /\ pe = <<>> /\ att = <<>> /\ mha = <<>>
  /\ cfg = <<>> /\ mode = <<>> /\ rng = 0 /\ params = <<>>
  /\ call = <<>> /\ ref = <<>>

NextNorm ==
  \E n \in 1..MaxFeatures : \E x \in [1..n -> TokenValues] : LNForward(x)

SpecNorm == InitNorm /\ [][NextNorm]_vars

(***************************************************************************)
(* C4 (stated as the claim; the code violates it).  LayerNorm uses the     *)
(* biased standard deviation (squared deviations divided by d_model, not   *)
(* d_model - 1), applies scalar alpha and bias, its pre-affine output has  *)
(* mean 0, and the output is finite for every finite token with            *)
(* d_model >= 1.                                                           *)
(***************************************************************************)
C4_BiasedStdAndFinite ==
  ln.pc = "returned" =>
    /\ ln.out.std.divisor = Len(ln.x)
    /\ ln.out.finite
    /\ SumSeq(ln.out.centred) = 0
    /\ ln.out.alpha = ln.alpha /\ ln.out.bias = ln.bias

(***************************************************************************)
(* MultiHeadAttentionBlock.attention (lines 92-100): masked_fill and       *)
(* softmax over the key axis, one query row of the score matrix at a time  *)
(* (softmax(dim=-1) treats the rows independently).  Scores are integers;  *)
(* exp is the fixed-point table ExpTable (8 decimal digits), so a softmax  *)
(* weight is the exact fraction num / den of table values.                 *)
(***************************************************************************)
MaxKeys == 2

\* attention_scores.masked_fill(mask == 0, -1e9)
MaskFillValue == -1000000000

\* scores the product query . key^T / sqrt(d_k) can take: ordinary ones and
\* ones as low as the fill value
RawScores == {MaskFillValue + 5, MaskFillValue + 14, 0, 3}

\* mask is None
NoMask == <<>>

\* floor(10^8 * e^(-d)) for d = 0, 1, ..., 19
ExpTable == <<100000000, 36787944, 13533528, 4978706, 1831563, 673794, 247875,
              91188, 33546, 12340, 4539, 1670, 614, 226, 83, 30, 11, 4, 1, 0>>

\* exp(delta) for delta <= 0, in units of 10^-8
ExpFixed(delta) == IF -delta >= Len(ExpTable) THEN 0 ELSE ExpTable[1 - delta]

RECURSIVE MaxSeq(_)
MaxSeq(s) == IF Len(s) = 1 THEN s[1] ELSE Max(s[1], MaxSeq(Tail(s)))

\* the mutant of masked_fill: fills where the mask is set instead of where it is 0
masked_fill_inverted(scores, mask) ==
  IF mask = NoMask THEN scores
  ELSE [j \in 1..Len(scores) |-> IF mask[j] # 0 THEN MaskFillValue ELSE scores[j]]

\* if mask is not None: attention_scores.masked_fill(mask == 0, -1e9)
masked_fill(scores, mask) ==
  IF mask = NoMask THEN scores
  ELSE [j \in 1..Len(scores) |-> IF mask[j] = 0 THEN MaskFillValue ELSE scores[j]]

\* attention_scores.softmax(dim=-1) on one row: exp(x - max) / sum exp(x - max)
softmax(row) ==
  LET m == MaxSeq(row)
      e == [j \in 1..Len(row) |-> ExpFixed(row[j] - m)]
  IN [j \in 1..Len(row) |-> [num |-> e[j], den |-> SumSeq(e)]]

AttnIdle == [pc |-> "idle", seq_len |-> 0, i |-> 0, kind |-> "none", mask |-> NoMask,
             raw |-> <<>>, attention_scores |-> <<>>]

\* the mask row that applies to a query: None, one row broadcast over every
\* query ("row", mask of shape [.., 1, seq_len]) or a row per query ("matrix")
AttnMaskRows(kind, n) == IF kind = "none" THEN {NoMask} ELSE [1..n -> {0, 1}]

\* line 94: the scores of query 1 of a call over n key positions
AttnScores(n, kind, row, mrow) ==
  /\ att.pc = "idle"
  /\ att' = [pc |-> "scored", seq_len |-> n, i |-> 1, kind |-> kind, mask |-> mrow,
             raw |-> row, attention_scores |-> row]
  /\ UNCHANGED <<pe, ln, mha, cfg, mode, rng, params, call, ref>>

\* lines 95-96
AttnMaskedFill ==
  /\ att.pc = "scored"
  /\ att' = [att EXCEPT !.pc = "filled",
                        !.attention_scores = masked_fill(att.attention_scores, att.mask)]
  /\ UNCHANGED <<pe, ln, mha, cfg, mode, rng, params, call, ref>>

\* line 97
AttnSoftmax ==
  /\ att.pc = "filled"
  /\ att' = [att EXCEPT !.pc = "softmaxed",
                        !.attention_scores = softmax(att.attention_scores)]
  /\ UNCHANGED <<pe, ln, mha, cfg, mode, rng, params, call, ref>>

\* the next query row of the same call
AttnNextRow(row, mrow) ==
  /\ att.pc = "softmaxed"
  /\ att.i < att.seq_len
  /\ att.kind = "row" => mrow = att.mask
  /\ att' = [att EXCEPT !.pc = "scored", !.i = att.i + 1, !.mask = mrow,
                        !.raw = row, !.attention_scores = row]
  /\ UNCHANGED <<pe, ln, mha, cfg, mode, rng, params, call, ref>>

\* line 100 after the last query row: the call returns
AttnReturn ==
  /\ att.pc = "softmaxed"
  /\ att.i = att.seq_len
  /\ att' = AttnIdle
  /\ UNCHANGED <<pe, ln, mha, cfg, mode, rng, params, call, ref>>

InitAttn ==
  /\ att = AttnIdle
  /\ pe = <<>> /\ ln = <<>> /\ mha = <<>>
  /\ cfg = <<>> /\ mode = <<>> /\ rng = 0 /\ params = <<>>
  /\ call = <<>> /\ ref = <<>>

NextAttn ==
  \/ \E n \in 1..MaxKeys, kind \in {"none", "row", "matrix"} :
       \E row \in [1..n -> RawScores], mrow \in AttnMaskRows(kind, n) :
          AttnScores(n, kind, row, mrow)
  \/ AttnMaskedFill
  \/ AttnSoftmax
  \/ \E row \in [1..att.seq_len -> RawScores], mrow \in AttnMaskRows(att.kind, att.seq_len) :
       AttnNextRow(row, mrow)
  \/ AttnReturn

SpecAttn == InitAttn /\ [][NextAttn]_vars

\* weight < 10^-6, i.e. num * 10^6 < den (den is at most MaxKeys * 10^8)
NearZero(w) == w.num < 2000 /\ w.num * 1000000 < w.den

\* a weight is a finite number in [0, 1]: no 0/0
FiniteWeight(w) == w.den > 0 /\ 0 <= w.num /\ w.num <= w.den

Masked(j) == att.mask # NoMask /\ att.mask[j] = 0

(***************************************************************************)
(* C2 as stated: after softmax every weight is finite and the weight of    *)
(* every masked key position is below 1e-6, in every row, whatever number  *)
(* of its key positions are masked.                                        *)
(***************************************************************************)
C2_Original ==
  att.pc = "softmaxed" =>
    \A j \in 1..att.seq_len :
       /\ FiniteWeight(att.attention_scores[j])
       /\ Masked(j) => NearZero(att.attention_scores[j])

(***************************************************************************)
(* C2 amended: after softmax every weight of every row is finite; the      *)
(* weight of a masked key position is below 1e-6 when some key position of *)
(* the row is unmasked with a score at least 14 above the fill value -1e9; *)
(* in a fully masked row every weight is 1/seq_len.                        *)
(***************************************************************************)
C2_MaskedWeightNearZero ==
  att.pc = "softmaxed" =>
    /\ \A j \in 1..att.seq_len : FiniteWeight(att.attention_scores[j])
    /\ (\E t \in 1..att.seq_len : ~Masked(t) /\ att.raw[t] >= MaskFillValue + 14) =>
          \A j \in 1..att.seq_len : Masked(j) => NearZero(att.attention_scores[j])
    /\ (\A t \in 1..att.seq_len : Masked(t)) =>
          \A j \in 1..att.seq_len :
             att.attention_scores[j].num * att.seq_len = att.attention_scores[j].den

C2_Witness ==
  /\ att.pc = "softmaxed" /\ att.seq_len >= 2 /\ att.i = 2
  /\ \E j, t \in 1..att.seq_len :
       /\ Masked(j) /\ ~Masked(t) /\ att.raw[t] = MaskFillValue + 14
       /\ att.raw[j] = 3
       /\ NearZero(att.attention_scores[j])

(***************************************************************************)
(* MultiHeadAttentionBlock (lines 79-111): construction, and the head      *)
(* split and merge of forward.  A tensor is its shape and its elements in  *)
(* logical row-major order; coordinates are 0-based as in the source.      *)
(***************************************************************************)
MaxAbsDim == 4
MaxSeqLenMHA == 2

\* Python's a % b for b # 0: the result takes the sign of b
PyMod(a, b) == IF b > 0 THEN a % b ELSE -((-a) % (-b))

\* Python's a // b for b # 0: floor division
PyFloorDiv(a, b) == IF b > 0 THEN a \div b ELSE (-a) \div (-b)

RECURSIVE Prod(_)
Prod(s) == IF Len(s) = 0 THEN 1 ELSE s[1] * Prod(Tail(s))

Numel(shape) == Prod(shape)

\* row-major offset of the coordinates idx[1..k] in a tensor of this shape
RECURSIVE Flat(_, _, _)
Flat(shape, idx, k) == IF k = 0 THEN 0 ELSE Flat(shape, idx, k - 1) * shape[k] + idx[k]

\* the coordinates of row-major offset off
Unflatten(shape, off) ==
  [k \in 1..Len(shape) |->
     (off \div Prod(SubSeq(shape, k + 1, Len(shape)))) % shape[k]]

Elem(t, idx) == t.data[Flat(t.shape, idx, Len(idx)) + 1]

RaisedTensor == [shape |-> ShapeError, data |-> <<>>]

\* Tensor.view(*dims) / reshape on a contiguous tensor: at most one -1, which is
\* inferred; the number of elements must match; the element order is kept
View(t, dims) ==
  LET minus == {i \in 1..Len(dims) : dims[i] = -1}
      others == Prod([i \in 1..Len(dims) |-> IF dims[i] = -1 THEN 1 ELSE dims[i]])
  IN IF (\E i \in 1..Len(dims) : dims[i] < -1) \/ Cardinality(minus) > 1
     THEN RaisedTensor
     ELSE IF minus = {}
     THEN (IF others = Numel(t.shape) THEN [shape |-> dims, data |-> t.data]
           ELSE RaisedTensor)
     ELSE IF others = 0 \/ Numel(t.shape) % others # 0
     THEN RaisedTensor
     ELSE [shape |-> [i \in 1..Len(dims) |->
                        IF dims[i] = -1 THEN Numel(t.shape) \div others ELSE dims[i]],
           data |-> t.data]

\* Tensor.transpose(1, 2) of a rank-4 tensor, then read in logical order
Transpose12(t) ==
  LET ns == <<t.shape[1], t.shape[3], t.shape[2], t.shape[4]>>
  IN [shape |-> ns,
      data |-> [o \in 1..Numel(ns) |->
                  LET idx == Unflatten(ns, o - 1)
                  IN Elem(t, <<idx[1], idx[3], idx[2], idx[4]>>)]]

\* query.view(query.shape[0], query.shape[1], self.h, self.d_k).transpose(1, 2)
SplitHeads(t, h, d_k) ==
  LET v == View(t, <<t.shape[1], t.shape[2], h, d_k>>)
  IN IF IsShape(v.shape) THEN Transpose12(v) ELSE RaisedTensor

\* x.transpose(1, 2).contiguous().reshape(x.shape[0], -1, self.h * self.d_k)
CombineHeads(t, h, d_k) ==
  View(Transpose12(t), <<t.shape[1], -1, h * d_k>>)

\* the output of a Linear(d_model, d_model) on [batch, seq_len, d_model]: element
\* (b, s, f) is named by its coordinates
Projected(name, batch, n, d_model) ==
  LET shape == <<batch, n, d_model>>
  IN [shape |-> shape,
      data |-> [o \in 1..Numel(shape) |->
                  [t |-> name, at |-> Unflatten(shape, o - 1)]]]

\* the per-head output of attention(): element (b, a, s, j) is computed from
\* row s of head a's query, head a's keys and column j of head a's values
Attended(query, value) ==
  [shape |-> <<query.shape[1], query.shape[2], query.shape[3], value.shape[4]>>,
   data |-> [o \in 1..Numel(<<query.shape[1], query.shape[2], query.shape[3], value.shape[4]>>) |->
               [t |-> "attention",
                at |-> Unflatten(<<query.shape[1], query.shape[2], query.shape[3],
                                   value.shape[4]>>, o - 1)]]]

MHAIdle == [pc |-> "new", d_model |-> 0, h |-> 0, d_k |-> 0, error |-> "",
            q |-> <<>>, query |-> <<>>, scale_d_k |-> 0, x |-> <<>>]

\* __init__(d_model, h, dropout)
MHAConstruct(d_model, h) ==
  /\ mha.pc = "new"
  /\ mha' =
       IF h = 0
       THEN [mha EXCEPT !.pc = "init_failed", !.error = "ZeroDivisionError"]
       ELSE IF PyMod(d_model, h) # 0
       THEN [mha EXCEPT !.pc = "init_failed", !.error = "AssertionError"]
       ELSE IF d_model < 0   \* nn.Linear(d_model, d_model) allocates [d_model, d_model]
       THEN [mha EXCEPT !.pc = "init_failed", !.error = "RuntimeError"]
       ELSE [mha EXCEPT !.pc = "ready", !.d_model = d_model, !.h = h,
                        !.d_k = PyFloorDiv(d_model, h)]
  /\ UNCHANGED <<pe, ln, att, cfg, mode, rng, params, call, ref>>

\* forward, lines 103-108: the projections and the split into heads
MHASplit(batch, n) ==
  /\ mha.pc \in {"ready", "returned", "raised"}
  /\ LET q == Projected("w_q", batch, n, mha.d_model)
         query == SplitHeads(q, mha.h, mha.d_k)
     IN mha' = IF IsShape(query.shape)
               THEN [mha EXCEPT !.pc = "split", !.q = q, !.query = query,
                                !.scale_d_k = 0, !.x = <<>>]
               ELSE [mha EXCEPT !.pc = "raised", !.q = q, !.query = <<>>,
                                !.scale_d_k = 0, !.x = <<>>]
  /\ UNCHANGED <<pe, ln, att, cfg, mode, rng, params, call, ref>>

\* line 109: attention(); d_k = query.shape[-1] scales the scores
MHAAttention ==
  /\ mha.pc = "split"
  /\ mha' = [mha EXCEPT !.pc = "attended", !.scale_d_k = mha.query.shape[4],
                        !.x = Attended(mha.query, mha.query)]
  /\ UNCHANGED <<pe, ln, att, cfg, mode, rng, params, call, ref>>

\* lines 110-111: merge the heads; w_o keeps the shape
MHACombine ==
  /\ mha.pc = "attended"
  /\ LET x == CombineHeads(mha.x, mha.h, mha.d_k)
     IN mha' = IF IsShape(x.shape)
               THEN [mha EXCEPT !.pc = "returned", !.x = x]
               ELSE [mha EXCEPT !.pc = "raised", !.x = <<>>]
  /\ UNCHANGED <<pe, ln, att, cfg, mode, rng, params, call, ref>>

InitMHA ==
  /\ mha = MHAIdle
  /\ pe = <<>> /\ ln = <<>> /\ att = <<>>
  /\ cfg = <<>> /\ mode = <<>> /\ rng = 0 /\ params = <<>>
  /\ call = <<>> /\ ref = <<>>

NextMHA ==
  \/ \E d \in (-MaxAbsDim)..MaxAbsDim, h \in (-MaxAbsDim)..MaxAbsDim : MHAConstruct(d, h)
  \/ \E b \in 1..MaxBatch, n \in 1..MaxSeqLenMHA : MHASplit(b, n)
  \/ MHAAttention
  \/ MHACombine

SpecMHA == InitMHA /\ [][NextMHA]_vars

MHAConstructed == mha.pc \in {"ready", "split", "attended", "returned", "raised"}

(***************************************************************************)
(* C7 (stated as the claim; the code violates it).  Whenever construction  *)
(* of the attention block succeeds, num_heads > 0, d_model > 0,            *)
(* d_k = d_model / num_heads > 0 and num_heads * d_k = d_model (so it      *)
(* fails for every non-positive d_model or num_heads and every d_model not *)
(* divisible by num_heads), and the d_k that scales the scores at call     *)
(* time is this d_k.                                                       *)
(***************************************************************************)
C7_ConstructionValidates ==
  /\ MHAConstructed =>
       /\ mha.h > 0 /\ mha.d_model > 0 /\ mha.d_k > 0
       /\ mha.h * mha.d_k = mha.d_model
  /\ mha.pc = "attended" => mha.scale_d_k = mha.d_k

(***************************************************************************)
(* C10 (stated as the claim; the code violates it).  Head merge is the     *)
(* exact inverse of head split: the element split to [b, a, s, j] is       *)
(* feature a*d_k + j of position s of batch b; the element [b, a, s, j] of *)
(* the per-head output is merged to feature a*d_k + j of position s of     *)
(* batch b; and split followed by merge gives back the                     *)
(* [batch, seq_len, d_model] tensor, on every block that was constructed.  *)
(***************************************************************************)
C10_SplitMergeInverse ==
  /\ mha.pc \in {"split", "attended"} =>
       /\ mha.query.shape = <<mha.q.shape[1], mha.h, mha.q.shape[2], mha.d_k>>
       /\ \A b \in 0..(mha.q.shape[1] - 1), a \in 0..(mha.h - 1),
             s \in 0..(mha.q.shape[2] - 1), j \in 0..(mha.d_k - 1) :
            Elem(mha.query, <<b, a, s, j>>) = [t |-> "w_q", at |-> <<b, s, a * mha.d_k + j>>]
       /\ CombineHeads(mha.query, mha.h, mha.d_k) = mha.q
  /\ mha.pc = "returned" =>
       /\ mha.x.shape = mha.q.shape
       /\ \A b \in 0..(mha.q.shape[1] - 1), a \in 0..(mha.h - 1),
             s \in 0..(mha.q.shape[2] - 1), j \in 0..(mha.d_k - 1) :
            Elem(mha.x, <<b, s, a * mha.d_k + j>>) = [t |-> "attention", at |-> <<b, a, s, j>>]

(***************************************************************************)
(* The whole pipeline (lines 17-24, 41-43, 65-73, 92-155, 191-193).        *)
(*                                                                         *)
(* A forward call is recorded on a tape: one entry per tensor operation,   *)
(* in execution order, holding the operation, the module that ran it, the  *)
(* tape indices of its operands and the shape of its result.  With fixed   *)
(* weights the tape determines the value of every tensor of the call.      *)
(* Dropout uses the generator state rng; the configured rate is positive.  *)
(***************************************************************************)
MaxDModel == 4
MaxSeqLen == 2
MaxLayers == 2
VocabSize == 2
DFF == 3
RngPeriod == 2

\* the configurations of the driver (lines 157-178): every dimension positive
\* and h a divisor of d_model; the dropout rate is positive
Configs ==
  {[d_model |-> c.d_model, h |-> c.h, d_k |-> PyFloorDiv(c.d_model, c.h),
    seq_len |-> c.seq_len, num_layers |-> c.num_layers,
    vocab_size |-> VocabSize, d_ff |-> DFF] :
     c \in {b \in [d_model : 1..MaxDModel, h : 1..MaxDModel,
                   seq_len : 1..MaxSeqLen, num_layers : 1..MaxLayers] :
              PyMod(b.d_model, b.h) = 0}}

\* the buffer registered by PositionalEncoding.__init__
PETable(d_model, seq_len) ==
  SliceAssign(SliceAssign(PEZeros(seq_len, d_model), seq_len, d_model, 0,
                          Angles("sin", seq_len, d_model), StridedCount(0, d_model)),
              seq_len, d_model, 1,
              Angles("cos", seq_len, d_model), StridedCount(0, d_model))

\* every weight tensor after construction; a learned tensor is named by the
\* version of its values (0: as initialised)
ParamsInit(c) ==
  [embedding |-> 0,
   positional_encoding |-> [table |-> PETable(c.d_model, c.seq_len), requires_grad |-> FALSE],
   layers |-> [l \in 1..c.num_layers |->
                 [w_q |-> 0, w_k |-> 0, w_v |-> 0, w_o |-> 0, linear_1 |-> 0, linear_2 |-> 0,
                  norm_0 |-> [alpha |-> AlphaInit, bias |-> BiasInit],
                  norm_1 |-> [alpha |-> AlphaInit, bias |-> BiasInit]]],
   norm |-> [alpha |-> AlphaInit, bias |-> BiasInit]]

\* ---- shapes of the tensor operations ----
ViewShape(s, dims) == View([shape |-> s, data |-> <<>>], dims).shape

TransposeShape12(s) == <<s[1], s[3], s[2], s[4]>>

TransposeShapeLast(s) == <<s[1], s[2], s[4], s[3]>>

\* torch.matmul of two rank-4 tensors with equal batch dimensions
MatmulShape(a, b) ==
  IF a[1] = b[1] /\ a[2] = b[2] /\ a[4] = b[3] THEN <<a[1], a[2], a[3], b[4]>>
  ELSE ShapeError

\* nn.Linear(d_in, d_out)
LinearShape(s, d_in, d_out) ==
  IF s[Len(s)] = d_in THEN [s EXCEPT ![Len(s)] = d_out] ELSE ShapeError

\* ---- the tape ----
Entry(op, layer, name, args, shape) ==
  [op |-> op, layer |-> layer, name |-> name, args |-> args, shape |-> shape,
   active |-> FALSE, pattern |-> 0, mask |-> NoMask]

\* local variables of the forward methods that hold a tensor: tape indices
NoLocals == [x |-> 0, q |-> 0, k |-> 0, v |-> 0, query |-> 0, key |-> 0, value |-> 0]

Fresh(r) == [tape |-> <<>>, rng |-> r, err |-> "", local |-> NoLocals]

\* the tensor computed last
Top(st) == Len(st.tape)

ShapeAt(st, i) == st.tape[i].shape

\* run one operation: append its entry, or raise if its shapes do not fit;
\* nothing runs once the call has raised
Emit(st, e) ==
  IF st.err # "" THEN st
  ELSE IF ~IsShape(e.shape) THEN [st EXCEPT !.err = e.op]
  ELSE [st EXCEPT !.tape = Append(st.tape, e)]

\* bind the tensor computed last to a local variable
Bind(st, var) == IF st.err # "" THEN st ELSE [st EXCEPT !.local[var] = Top(st)]

\* an operation on the tensor computed last whose result has the same shape
Unary(st, op, layer, name) ==
  Emit(st, Entry(op, layer, name, <<Top(st)>>, ShapeAt(st, Top(st))))

\* nn.Linear(d_in, d_out) applied to tensor xi
Linear(st, layer, name, xi, d_in, d_out) ==
  Emit(st, Entry("linear", layer, name, <<xi>>, LinearShape(ShapeAt(st, xi), d_in, d_out)))

\* the mutant of Dropout: drops whatever the module's training flag says
DropoutAlways(st, layer, name, training) ==
  IF st.err # "" THEN st
  ELSE [Emit(st, [Entry("dropout", layer, name, <<Top(st)>>, ShapeAt(st, Top(st)))
                    EXCEPT !.active = TRUE, !.pattern = st.rng])
          EXCEPT !.rng = (st.rng + 1) % RngPeriod]

\* nn.Dropout(p).forward: F.dropout(x, p, self.training).  In training mode the
\* zeroed elements are drawn from the generator, which advances; in eval mode
\* the input is returned and the generator is not read
Dropout(st, layer, name, training) ==
  IF st.err # "" THEN st
  ELSE IF training
  THEN [Emit(st, [Entry("dropout", layer, name, <<Top(st)>>, ShapeAt(st, Top(st)))
                    EXCEPT !.active = TRUE, !.pattern = st.rng])
          EXCEPT !.rng = (st.rng + 1) % RngPeriod]
  ELSE Unary(st, "dropout", layer, name)

\* self.embedding(x): nn.Embedding raises IndexError for an id outside
\* [0, vocab_size)
EmbeddingLookup(st, c, ids) ==
  IF st.err # "" THEN st
  ELSE IF \A i \in 1..Len(ids) : ids[i] >= 0 /\ ids[i] < c.vocab_size
  THEN Emit(st, Entry("embedding", 0, "embedding", <<Top(st)>>,
                      ShapeAt(st, Top(st)) \o <<c.d_model>>))
  ELSE [st EXCEPT !.err = "IndexError"]

\* InputEmbedding.forward (line 24) on input_tensor of shape [batch, len(ids)]
InputEmbedding(st, c, batch, ids) ==
  Unary(EmbeddingLookup(Emit(st, Entry("input", 0, "input_tensor", <<>>, <<batch, Len(ids)>>)),
                        c, ids),
        "mul_sqrt_d_model", 0, "embedding")

\* x + self.positional_encoding[:, :x.shape[1], :] (line 42)
AddPositionalEncoding(st, c) ==
  Emit(st, Entry("add_positional_encoding", 0, "pos_encoding", <<Top(st)>>,
                 PEForwardShape(c.seq_len, c.d_model, ShapeAt(st, Top(st)))))

\* PositionalEncoding.forward (lines 42-43)
PositionalEncoding(st, c, training) ==
  Dropout(AddPositionalEncoding(st, c), 0, "pos_encoding.dropout", training)

\* LayerNormalization.forward (lines 57-59): the result has the shape of x
LayerNorm(st, layer, name) == Unary(st, "norm", layer, name)

\* nn.Linear(d_in, d_out) applied to the tensor computed last
LinearTop(st, layer, name, d_in, d_out) == Linear(st, layer, name, Top(st), d_in, d_out)

\* FeedForwardBlock.forward (line 73):
\* linear_2(dropout(relu(linear_1(x))))
FeedForwardBlock(st, c, layer, training) ==
  LinearTop(Dropout(Unary(LinearTop(st, layer, "feed_forward.linear_1", c.d_model, c.d_ff),
                          "relu", layer, "feed_forward"),
                    layer, "feed_forward.dropout", training),
            layer, "feed_forward.linear_2", c.d_ff, c.d_model)

\* the shape of t.view(t.shape[0], t.shape[1], h, d_k).transpose(1, 2)
HeadsShape(s, h, d_k) ==
  IF IsShape(ViewShape(s, <<s[1], s[2], h, d_k>>))
  THEN TransposeShape12(ViewShape(s, <<s[1], s[2], h, d_k>>))
  ELSE ShapeError

SplitHeadsTop(st, c, layer, name) ==
  Emit(st, Entry("split_heads", layer, name, <<Top(st)>>,
                 HeadsShape(ShapeAt(st, Top(st)), c.h, c.d_k)))

\* lines 103-108, for one of query, key, value: var = self.w(arg), then
\* var = var.view(var.shape[0], var.shape[1], self.h, self.d_k).transpose(1, 2)
ProjectSplit(st, c, layer, name, arg, var) ==
  Bind(SplitHeadsTop(Linear(st, layer, name, st.local[arg], c.d_model, c.d_model),
                     c, layer, name),
       var)

\* line 94: matmul(query, key.transpose(-2, -1)) / math.sqrt(d_k)
Scores(st, layer) ==
  Emit(st, Entry("scores", layer, "attention", <<st.local.query, st.local.key>>,
                 MatmulShape(ShapeAt(st, st.local.query),
                             TransposeShapeLast(ShapeAt(st, st.local.key)))))

\* lines 95-96: the mask must expand to the shape of the scores
MaskedFill(st, layer, mask) ==
  IF mask = NoMask \/ st.err # "" THEN st
  ELSE Emit(st, [Entry("masked_fill", layer, "attention", <<Top(st)>>,
                       IF ExpandableTo(mask.shape, ShapeAt(st, Top(st)))
                       THEN ShapeAt(st, Top(st)) ELSE ShapeError)
                   EXCEPT !.mask = mask])

\* line 100: matmul(attention_scores, value)
WeightedSum(st, layer) ==
  Emit(st, Entry("weighted_sum", layer, "attention", <<Top(st), st.local.value>>,
                 MatmulShape(ShapeAt(st, Top(st)), ShapeAt(st, st.local.value))))

\* line 110: x.transpose(1, 2).contiguous().reshape(x.shape[0], -1, h * d_k)
CombineHeadsTop(st, c, layer) ==
  Emit(st, Entry("combine_heads", layer, "attention", <<Top(st)>>,
                 ViewShape(TransposeShape12(ShapeAt(st, Top(st))),
                           <<ShapeAt(st, Top(st))[1], -1, c.h * c.d_k>>)))

\* attention(query, key, value, mask, dropout) (lines 92-100)
Attention(st, layer, mask, training) ==
  WeightedSum(Dropout(Unary(MaskedFill(Scores(st, layer), layer, mask),
                            "softmax", layer, "attention"),
                      layer, "attention.dropout", training),
              layer)

\* MultiHeadAttentionBlock.forward(q, k, v, mask) (lines 102-111); the
\* arguments are the locals q, k, v
MultiHeadAttentionBlock(st, c, layer, mask, training) ==
  LinearTop(CombineHeadsTop(
              Attention(ProjectSplit(ProjectSplit(ProjectSplit(st, c, layer, "w_q", "q", "query"),
                                                  c, layer, "w_k", "k", "key"),
                                     c, layer, "w_v", "v", "value"),
                        layer, mask, training),
              c, layer),
            layer, "w_o", c.d_model, c.d_model)

\* the sublayer of residual connection r of an EncoderBlock (lines 139-140):
\* r = 0: lambda x: self.self_attention_block(x, x, x, src_mask)
\* r = 1: self.feed_forward_block
Sublayer(st, c, layer, r, src_mask, training) ==
  IF r = 0
  THEN MultiHeadAttentionBlock(Bind(Bind(Bind(st, "q"), "k"), "v"), c, layer, src_mask, training)
  ELSE FeedForwardBlock(st, c, layer, training)

ResidualName(r) == IF r = 0 THEN "residual_0" ELSE "residual_1"

\* x + (the tensor computed last)
AddToX(st, layer, name) ==
  Emit(st, Entry("add", layer, name, <<st.local.x, Top(st)>>,
                 BroadcastShapes(ShapeAt(st, st.local.x), ShapeAt(st, Top(st)))))

\* the mutant of Residual: normalises after the addition (post-normalisation)
ResidualPostNorm(st, c, layer, r, src_mask, training) ==
  LayerNorm(AddToX(Dropout(Sublayer(Bind(st, "x"), c, layer, r, src_mask, training),
                           layer, ResidualName(r), training),
                   layer, ResidualName(r)),
            layer, ResidualName(r))

\* Residual.forward(x, sublayer) (line 125):
\* x + self.dropout(sublayer(self.norm(x)))
Residual(st, c, layer, r, src_mask, training) ==
  AddToX(Dropout(Sublayer(LayerNorm(Bind(st, "x"), layer, ResidualName(r)),
                          c, layer, r, src_mask, training),
                 layer, ResidualName(r), training),
         layer, ResidualName(r))

\* EncoderBlock.forward(x, src_mask) (lines 138-141)
EncoderBlock(st, c, layer, src_mask, training) ==
  Residual(Residual(st, c, layer, 0, src_mask, training), c, layer, 1, src_mask, training)

\* ---- the state machine of the pipeline ----
CallNew == [pc |-> "new", batch |-> 0, ids |-> <<>>, mask |-> NoMask,
            tape |-> <<>>, err |-> "", x |-> 0, layer |-> 0]

CallIdle == [CallNew EXCEPT !.pc = "idle"]

NoParams == <<>>

NoRef == <<>>

\* what a step leaves in the call record: the tape, the tensor x now in
\* flight, and the position reached (or "raised")
After(st, pc, layer) ==
  [call EXCEPT !.pc = IF st.err # "" THEN "raised" ELSE pc,
               !.tape = st.tape, !.err = st.err, !.x = Top(st), !.layer = layer]

\* the call in flight; a method's locals do not outlive it
Running == [tape |-> call.tape, rng |-> rng, err |-> call.err, local |-> NoLocals]

\* the mutant of requires_grad_: an in-place write into the buffer
write_in_place(buffer, flag) ==
  [buffer EXCEPT !.table = [pos \in DOMAIN buffer.table |->
                              [c \in DOMAIN buffer.table[pos] |-> Zero]]]

\* positional_encoding[:, :n, :].requires_grad_(False) (line 42): sets a flag,
\* which the buffer already has, and writes no value
requires_grad_(buffer, flag) == [buffer EXCEPT !.requires_grad = flag]

\* the masks a caller may pass for a [batch, n] input: None, a padding mask
\* [batch, 1, 1, n], or a mask that does not broadcast to the scores
Masks(batch, n) ==
  {NoMask, [shape |-> <<batch, 1, 1, n>>, name |-> "padding"],
           [shape |-> <<n + 1, n>>, name |-> "misshapen"]}

\* the constructors of the driver (lines 171-188): PositionalEncoding.__init__
\* raises when the cosine columns cannot be assigned, and nothing is built
Construct ==
  /\ call.pc = "new"
  /\ IF IsShape(PETable(cfg.d_model, cfg.seq_len))
     THEN /\ params' = ParamsInit(cfg)
          /\ call' = CallIdle
     ELSE /\ params' = params
          /\ call' = [call EXCEPT !.pc = "construction_raised", !.err = "RuntimeError"]
  /\ UNCHANGED <<pe, ln, att, mha, cfg, mode, rng, ref>>

\* nn.Module.train(flag) / eval() on pos_encoding or on encoder, between calls
SetTraining(module, flag) ==
  /\ call.pc = "idle"
  /\ mode[module] # flag
  /\ mode' = [mode EXCEPT ![module] = flag]
  /\ UNCHANGED <<pe, ln, att, mha, cfg, rng, params, call, ref>>

\* x = embedding(input_tensor) (line 191)
Embed(batch, ids, mask) ==
  /\ call.pc = "idle"
  /\ LET st == InputEmbedding(Fresh(rng), cfg, batch, ids)
     IN /\ call' = [After(st, "embedded", 0) EXCEPT !.batch = batch, !.ids = ids,
                                                     !.mask = mask]
        /\ rng' = st.rng
  /\ UNCHANGED <<pe, ln, att, mha, cfg, mode, params, ref>>

\* x = pos_encoding(x) (line 192)
PosEncode ==
  /\ call.pc = "embedded"
  /\ LET st == PositionalEncoding(Running, cfg, mode.pos_encoding)
     IN /\ call' = After(st, "pos_encoded", 0)
        /\ rng' = st.rng
  /\ params' = [params EXCEPT !.positional_encoding = requires_grad_(@, FALSE)]
  /\ UNCHANGED <<pe, ln, att, mha, cfg, mode, ref>>

\* Encoder.forward, one turn of `for layer in self.layers: x = layer(x, mask)`
EncoderLayer ==
  /\ call.pc \in {"pos_encoded", "encoding"}
  /\ call.layer < cfg.num_layers
  /\ LET st == EncoderBlock(Running, cfg, call.layer + 1, call.mask, mode.encoder)
     IN /\ call' = After(st, "encoding", call.layer + 1)
        /\ rng' = st.rng
  /\ UNCHANGED <<pe, ln, att, mha, cfg, mode, params, ref>>

\* Encoder.forward: return self.norm(x) (line 155)
EncoderNorm ==
  /\ call.pc \in {"pos_encoded", "encoding"}
  /\ call.layer = cfg.num_layers
  /\ LET st == LayerNorm(Running, 0, "norm")
     IN /\ call' = After(st, "done", call.layer)
        /\ rng' = st.rng
  /\ UNCHANGED <<pe, ln, att, mha, cfg, mode, params, ref>>

\* the call is over: its result (or its exception) is with the caller
Return ==
  /\ call.pc \in {"done", "raised"}
  /\ call' = CallIdle
  /\ UNCHANGED <<pe, ln, att, mha, cfg, mode, rng, params, ref>>

\* the caller keeps the output of a finished call to compare later outputs with
Remember ==
  /\ call.pc = "done"
  /\ ref = NoRef
  /\ ref' = [batch |-> call.batch, ids |-> call.ids, mask |-> call.mask,
             tape |-> call.tape, mode |-> mode, rng |-> rng]
  /\ UNCHANGED <<pe, ln, att, mha, cfg, mode, rng, params, call>>

\* nn.Module.__init__ sets training = True
InitPipeline(configs) ==
  /\ cfg \in configs
  /\ mode = [pos_encoding |-> TRUE, encoder |-> TRUE]
  /\ rng \in 0..(RngPeriod - 1)
  /\ params = NoParams
  /\ call = CallNew
  /\ ref = NoRef
  /\ pe = <<>> /\ ln = <<>> /\ att = <<>> /\ mha = <<>>

Init == InitPipeline(Configs)

Next ==
  \/ Construct
  \/ \E module \in {"pos_encoding", "encoder"}, flag \in BOOLEAN : SetTraining(module, flag)
  \/ \E batch \in {1, MaxBatch}, n \in 1..(MaxSeqLen + 1) :
       \E token \in {0, cfg.vocab_size - 1, cfg.vocab_size}, mask \in Masks(batch, n) :
         Embed(batch, [i \in 1..n |-> token], mask)
  \/ PosEncode
  \/ EncoderLayer
  \/ EncoderNorm
  \/ Return

Spec == Init /\ [][Next]_vars

\* ---- a caller that compares the outputs of two calls ----
\* one model width, inputs of the full length, well-formed masks
DetConfigs == {c \in Configs : c.d_model = 2 /\ c.seq_len = MaxSeqLen}

InitDet == InitPipeline(DetConfigs)

NextDet ==
  \/ Construct
  \/ \E module \in {"pos_encoding", "encoder"}, flag \in BOOLEAN : SetTraining(module, flag)
  \/ \E token \in 0..(VocabSize - 1),
          mask \in {m \in Masks(1, cfg.seq_len) : IF m = NoMask THEN TRUE ELSE m.name = "padding"} :
       Embed(1, [i \in 1..cfg.seq_len |-> token], mask)
  \/ PosEncode
  \/ EncoderLayer
  \/ EncoderNorm
  \/ Return
  \/ Remember

SpecDet == InitDet /\ [][NextDet]_vars

\* ---- the claims about the pipeline ----
InCall == call.pc \in {"embedded", "pos_encoded", "encoding", "done", "raised"}

Ops(op) == {i \in DOMAIN call.tape : call.tape[i].op = op}

Named(name) == {i \in DOMAIN call.tape : call.tape[i].name = name}

SetMax(S) == CHOOSE i \in S : \A j \in S : j <= i

\* the input the claim calls valid: no longer than max_seq_len, ids of the
\* vocabulary, no mask or a mask that broadcasts to the scores
ValidInput ==
  /\ Len(call.ids) <= cfg.seq_len
  /\ \A i \in DOMAIN call.ids : call.ids[i] \in 0..(cfg.vocab_size - 1)
  /\ call.mask = NoMask \/
       ExpandableTo(call.mask.shape, <<call.batch, cfg.h, Len(call.ids), Len(call.ids)>>)

ModelShape == <<call.batch, Len(call.ids), cfg.d_model>>

HeadShape == <<call.batch, cfg.h, Len(call.ids), cfg.d_k>>

(***************************************************************************)
(* C1 (stated as the claim; the code violates it).  Every configuration    *)
(* with positive dimensions and num_heads dividing d_model is built, and   *)
(* on it every forward call with a valid input raises nothing, has a       *)
(* tensor of shape [batch, seq_len, d_model] in flight after each step     *)
(* (embedding, positional encoder, each encoder layer, final norm) and     *)
(* returns one; inside attention the heads have shape                      *)
(* [batch, h, seq_len, d_k].                                               *)
(***************************************************************************)
C1_ForwardKeepsShape ==
  /\ call.pc # "construction_raised"
  /\ (InCall /\ ValidInput) =>
       /\ call.pc # "raised"
       /\ call.tape[call.x].shape = ModelShape
       /\ \A i \in (Ops("add") \cup Ops("norm") \cup Ops("dropout"))
                   \ (Named("attention.dropout") \cup Named("feed_forward.dropout")) :
            call.tape[i].shape = ModelShape
       /\ \A i \in Ops("split_heads") \cup Ops("weighted_sum") : call.tape[i].shape = HeadShape

\* ---- C9 ----
\* the additions made so far, up to and including the one at i
Rank(i) == Cardinality({j \in Ops("add") : j <= i})

\* the stage that ends with the addition at i: x + dropout(sublayer(norm(x)))
\* on the output x of the stage before it, with this stage's own norm
StageIsPreNorm(i, x) ==
  /\ call.tape[i].layer = (Rank(i) + 1) \div 2
  /\ call.tape[i].name = (IF Rank(i) % 2 = 1 THEN "residual_0" ELSE "residual_1")
  /\ x = (IF Rank(i) = 1 THEN SetMax(Named("pos_encoding.dropout"))
          ELSE SetMax({j \in Ops("add") : j < i}))
  /\ call.tape[x + 1] = [call.tape[x + 1] EXCEPT !.op = "norm", !.name = call.tape[i].name,
                                                 !.layer = call.tape[i].layer, !.args = <<x>>]
  /\ {j \in Ops("norm") : x < j /\ j < i} = {x + 1}
  /\ call.tape[i].args = <<x, i - 1>>
  /\ call.tape[i - 1] = [call.tape[i - 1] EXCEPT !.op = "dropout", !.name = call.tape[i].name,
                                                 !.layer = call.tape[i].layer, !.args = <<i - 2>>]
  /\ call.tape[i - 2].op = "linear" /\ call.tape[i - 2].layer = call.tape[i].layer
  /\ {call.tape[j].name : j \in {k \in Ops("linear") : x < k /\ k < i}} =
       (IF Rank(i) % 2 = 1 THEN {"w_q", "w_k", "w_v", "w_o"}
        ELSE {"feed_forward.linear_1", "feed_forward.linear_2"})
  /\ call.tape[i - 2].name \in {"w_o", "feed_forward.linear_2"}
  /\ \A j \in {k \in Ops("linear") : x < k /\ k < i} :
       call.tape[j].name \in {"w_q", "w_k", "w_v", "feed_forward.linear_1"} =>
         call.tape[j].args = <<x + 1>>

\* the caller's mask, unchanged, is applied to the scores of every layer
MaskThreaded(j) ==
  j + 1 \in DOMAIN call.tape =>
    IF call.mask = NoMask THEN call.tape[j + 1].op = "softmax"
    ELSE call.tape[j + 1].op = "masked_fill" /\ call.tape[j + 1].mask = call.mask
         /\ call.tape[j + 1].args = <<j>>

C8_WeightsReadOnly ==
  [][call.pc # "new" =>
       /\ params' = params /\ params = ParamsInit(cfg)
       /\ cfg' = cfg
       /\ call' # call => mode' = mode]_vars

C8_Witness ==
  /\ call.pc = "raised"
  /\ call.err = "masked_fill"
  /\ call.layer = 1
  /\ mode.pos_encoding
  /\ \E i \in Named("pos_encoding.dropout") : call.tape[i].active
  /\ params = ParamsInit(cfg)

\* ---- C3 ----
SameInputAsRemembered ==
  IF ref = NoRef THEN FALSE
  ELSE /\ call.pc = "done"
       /\ call.batch = ref.batch /\ call.ids = ref.ids /\ call.mask = ref.mask

EvalMode(m) == ~m.pos_encoding /\ ~m.encoder

====
